---- MODULE Spec2Model ----
(***************************************************************************)
(* A model of the MKV player (mkv_player.py, mkv_player_v2.py): the SubRip *)
(* parser (parse_timecode, parse_srt), the cue lookup (find_active_cue),   *)
(* the caption renderer (overlay_subtitle) and the playback loop of main.  *)
(*                                                                         *)
(* Strings are sequences of one-character strings, so that strip, split,   *)
(* isdigit and int act on characters as Python's do.  Times are counted in *)
(* milliseconds (the code's float seconds times 1000).  Frames are pixel   *)
(* buffers held in a heap and named by buffer ids, so that aliasing and    *)
(* in-place drawing are visible.  A subtitle file is taken as its lines,   *)
(* what f.read().splitlines() gives; cv2 and datetime are modelled by what *)
(* main relies on: cap.read() returns each frame in a buffer of its own,   *)
(* waitKey returns -1 or a key code below 256, and two readings of the     *)
(* clock may lie less than a millisecond apart.                            *)
(***************************************************************************)
EXTENDS Integers, Sequences, FiniteSets, TLC

VARIABLES
    \* ---- parse_srt under test
    content,        \* f.read().splitlines(): the file's lines
    blocks,         \* the block descriptors the file was written from
    srt,            \* [done, raised, cues]: the outcome of parse_srt
    \* ---- find_active_cue under test
    cues_in,        \* a cue collection
    t_in,           \* a lookup time (ms)
    found,          \* <<"pending">>, or what find_active_cue returned
    \* ---- overlay_subtitle under test, and the frames of main
    heap,           \* buffer id -> frame (pixel buffer)
    ov_in,          \* overlay_subtitle's argument: a buffer id
    ov_lines,       \* overlay_subtitle's argument: the text lines
    ov_orig,        \* the argument's pixels when the call was made
    ov_out,         \* 0, or the buffer id overlay_subtitle returned
    ov_writes,      \* the writes made to the returned buffer since
    \* ---- main
    script,         \* "mkv_player" or "mkv_player_v2"
    pc,             \* main's position
    video_exists,   \* os.path.exists(video_path)
    decoder_opens,  \* cap.isOpened()
    subtitle_arg,   \* whether --subtitle was given
    subtitle_file,  \* the subtitle file at the path main ends up with
    nframes,        \* the number of frames the video holds
    pos,            \* the number of frames cap.read() has returned
    cues,           \* main's cue collection
    paused,
    current_frame,  \* 0 (None) or a buffer id
    display_frame,  \* 0 (None) or a buffer id
    shown,          \* the frames cv2.imshow was given, the last one kept
    now_us,         \* the last reading of datetime.now(), in microseconds
    written,        \* what cv2.imwrite was given: <<[path, px, at]>>
    exit_status,    \* None, or the process's exit status
    diag,           \* the diagnostic printed before sys.exit(1), or None
    loop_entered,   \* whether the display loop was entered
    loop_end,       \* None, or what ended the display loop
    key             \* what cv2.waitKey last returned

srtVars == <<content, blocks, srt>>
cueVars == <<cues_in, t_in, found>>
ovVars == <<ov_in, ov_lines, ov_orig, ov_out, ov_writes>>
mainVars == <<script, pc, video_exists, decoder_opens, subtitle_arg,
              subtitle_file, nframes, pos, cues, paused, current_frame,
              display_frame, shown, now_us, written, exit_status, diag,
              loop_entered, loop_end, key>>
vars == <<srtVars, cueVars, heap, ovVars, mainVars>>

None == "None"

(***************************************************************************)
(* Python's str methods, on sequences of characters.                       *)
(***************************************************************************)
Digits == {"0", "1", "2", "3", "4", "5", "6", "7", "8", "9"}
Whitespace == {" ", "\t"}
ARROW == <<"-", "-", ">">>
COMMA == <<",">>
COLON == <<":">>

DigitVal(c) ==
    CASE c = "0" -> 0 [] c = "1" -> 1 [] c = "2" -> 2 [] c = "3" -> 3
      [] c = "4" -> 4 [] c = "5" -> 5 [] c = "6" -> 6 [] c = "7" -> 7
      [] c = "8" -> 8 [] c = "9" -> 9

RECURSIVE lstrip(_)
lstrip(s) ==
    IF s # <<>> /\ Head(s) \in Whitespace THEN lstrip(Tail(s)) ELSE s

RECURSIVE rstrip(_)
rstrip(s) ==
    IF s # <<>> /\ s[Len(s)] \in Whitespace
    THEN rstrip(SubSeq(s, 1, Len(s) - 1)) ELSE s

\* str.strip()
strip(s) == rstrip(lstrip(s))

\* str.rstrip('\r')
RECURSIVE rstrip_cr(_)
rstrip_cr(s) ==
    IF s # <<>> /\ s[Len(s)] = "\r"
    THEN rstrip_cr(SubSeq(s, 1, Len(s) - 1)) ELSE s

\* str.isdigit()
isdigit(s) == s # <<>> /\ \A i \in 1..Len(s) : s[i] \in Digits

\* the places where sep occurs in s
Occurrences(s, sep) ==
    {i \in 1..(Len(s) - Len(sep) + 1) : SubSeq(s, i, i + Len(sep) - 1) = sep}

\* sep in s
contains(s, sep) == Occurrences(s, sep) # {}

\* str.split(sep): at every occurrence, leftmost first, not overlapping
RECURSIVE split(_, _)
split(s, sep) ==
    IF ~contains(s, sep) THEN <<s>>
    ELSE LET i == CHOOSE k \in Occurrences(s, sep) :
                      \A j \in Occurrences(s, sep) : k <= j
         IN  <<SubSeq(s, 1, i - 1)>>
                 \o split(SubSeq(s, i + Len(sep), Len(s)), sep)

\* int(s) accepts: whitespace, an optional sign, digits that single
\* underscores may separate, whitespace
IntBody(s) ==
    LET u == strip(s) IN
    IF u # <<>> /\ u[1] \in {"+", "-"} THEN Tail(u) ELSE u

int_ok(s) ==
    LET b == IntBody(s) IN
    /\ b # <<>>
    /\ \A i \in 1..Len(b) : b[i] \in Digits \cup {"_"}
    /\ b[1] # "_"
    /\ b[Len(b)] # "_"
    /\ \A i \in 1..(Len(b) - 1) : ~(b[i] = "_" /\ b[i + 1] = "_")

RECURSIVE DigitsValue(_, _)
DigitsValue(b, acc) ==
    IF b = <<>> THEN acc
    ELSE IF Head(b) = "_" THEN DigitsValue(Tail(b), acc)
    ELSE DigitsValue(Tail(b), 10 * acc + DigitVal(Head(b)))

int_val(s) ==
    LET u == strip(s) IN
    IF u[1] = "-" THEN 0 - DigitsValue(IntBody(s), 0)
    ELSE DigitsValue(IntBody(s), 0)

(***************************************************************************)
(* parse_timecode: the timecode in milliseconds, or ValueError.            *)
(***************************************************************************)
ValueError == [ok |-> FALSE, ms |-> 0]

\* a faulty variant: the millisecond field is not checked, and counts as 0 when
\* it is no integer
parse_timecode_ms_unchecked(time_str) ==
    LET parts == split(time_str, COMMA)
        f == split(parts[1], COLON)
    IN  IF Len(parts) # 2 \/ Len(f) # 3 THEN ValueError
        ELSE IF \E i \in 1..3 : ~int_ok(f[i]) THEN ValueError
        ELSE [ok |-> TRUE,
              ms |-> (int_val(f[1]) * 3600 + int_val(f[2]) * 60
                        + int_val(f[3])) * 1000
                     + (IF int_ok(parts[2]) THEN int_val(parts[2]) ELSE 0)]

\* a faulty variant: a field that is no integer counts as 0 instead of failing
parse_timecode_unchecked(time_str) ==
    LET parts == split(time_str, COMMA)
        f == split(parts[1], COLON)
        num(x) == IF int_ok(x) THEN int_val(x) ELSE 0
    IN  IF Len(parts) # 2 \/ Len(f) # 3 THEN ValueError
        ELSE [ok |-> TRUE,
              ms |-> (num(f[1]) * 3600 + num(f[2]) * 60 + num(f[3])) * 1000
                        + num(parts[2])]

parse_timecode(time_str) ==
    LET parts == split(time_str, COMMA) IN
    IF Len(parts) # 2 THEN ValueError           \* hms, ms = ... fails
    ELSE
        LET hms == parts[1]
            ms == parts[2]
            f == split(hms, COLON)
        IN  IF \E i \in 1..Len(f) : i <= 3 /\ ~int_ok(f[i]) THEN ValueError
            ELSE IF Len(f) # 3 THEN ValueError  \* hours, minutes, seconds = ...
            ELSE IF ~int_ok(ms) THEN ValueError
            ELSE [ok |-> TRUE,
                  ms |-> (int_val(f[1]) * 3600 + int_val(f[2]) * 60
                            + int_val(f[3])) * 1000 + int_val(ms)]

(***************************************************************************)
(* parse_srt: a cue is <<start_time, end_time, lines>>.  The outcome is    *)
(* [raised, cues]: raised when a ValueError leaves parse_srt uncaught.     *)
(***************************************************************************)
Returned(cs) == [raised |-> FALSE, cues |-> cs]
Raised == [raised |-> TRUE, cues |-> <<>>]

blank(line) == strip(line) = <<>>

\* a faulty variant: an all-digit line ends the text too, as if it were the next
\* block's index
RECURSIVE TextEndAtDigits(_, _)
TextEndAtDigits(lines, idx) ==
    IF idx <= Len(lines) /\ ~blank(lines[idx]) /\ ~isdigit(strip(lines[idx]))
    THEN TextEndAtDigits(lines, idx + 1) ELSE idx

\* the first index from idx on that is past the end or holds a blank line
RECURSIVE TextEnd(_, _)
TextEnd(lines, idx) ==
    IF idx <= Len(lines) /\ ~blank(lines[idx])
    THEN TextEnd(lines, idx + 1) ELSE idx

\* the first index from idx on that is past the end or holds a non-blank line
RECURSIVE BlankEnd(_, _)
BlankEnd(lines, idx) ==
    IF idx <= Len(lines) /\ blank(lines[idx])
    THEN BlankEnd(lines, idx + 1) ELSE idx

\* the while loop of parse_srt, idx counted from 1
RECURSIVE parse_loop(_, _, _)
parse_loop(lines, idx, cs) ==
    IF idx > Len(lines) THEN Returned(cs)
    ELSE IF blank(lines[idx]) THEN parse_loop(lines, idx + 1, cs)
    ELSE
        LET i2 == IF isdigit(strip(lines[idx])) THEN idx + 1 ELSE idx IN
        IF i2 > Len(lines) THEN Returned(cs)
        ELSE
            LET timing == strip(lines[i2])
                i3 == i2 + 1
            IN
            IF ~contains(timing, ARROW) THEN parse_loop(lines, i3, cs)
            ELSE
                LET parts == split(timing, ARROW) IN
                \* start_str, end_str = [...] stands outside the try
                IF Len(parts) # 2 THEN Raised
                ELSE
                    LET start_time == parse_timecode(strip(parts[1]))
                        end_time == parse_timecode(strip(parts[2]))
                    IN
                    IF ~start_time.ok \/ ~end_time.ok
                    THEN parse_loop(lines, i3, cs)
                    ELSE
                        LET i4 == TextEnd(lines, i3)
                            text == [j \in 1..(i4 - i3) |->
                                        rstrip_cr(lines[i3 + j - 1])]
                        IN  parse_loop(lines, BlankEnd(lines, i4),
                                Append(cs, <<start_time.ms, end_time.ms, text>>))

\* parse_srt(path): whether the path exists, and the file's lines
parse_srt(exists, lines) ==
    IF ~exists THEN Returned(<<>>) ELSE parse_loop(lines, 1, <<>>)

(***************************************************************************)
(* find_active_cue: <<"lines", lines>> or <<"None">>.                      *)
(***************************************************************************)
\* a faulty variant: the end of the interval is exclusive
RECURSIVE find_active_cue_exclusive(_, _)
find_active_cue_exclusive(cs, current_time) ==
    IF cs = <<>> THEN <<None>>
    ELSE IF Head(cs)[1] <= current_time /\ current_time < Head(cs)[2]
         THEN <<"lines", Head(cs)[3]>>
         ELSE find_active_cue_exclusive(Tail(cs), current_time)

RECURSIVE find_active_cue(_, _)
find_active_cue(cs, current_time) ==
    IF cs = <<>> THEN <<None>>
    ELSE IF Head(cs)[1] <= current_time /\ current_time <= Head(cs)[2]
         THEN <<"lines", Head(cs)[3]>>
         ELSE find_active_cue(Tail(cs), current_time)

(***************************************************************************)
(* Subtitle files to parse.  A file is written from block descriptors      *)
(* [index, timing, text]: an optional index line, a timing line, text      *)
(* lines; blocks are separated by gap blank lines and the last block is    *)
(* followed by trail blank lines.                                          *)
(***************************************************************************)
MaxBlocks == 2
MaxLines == 4

DigitChar(d) ==
    CASE d = 0 -> "0" [] d = 1 -> "1" [] d = 2 -> "2" [] d = 3 -> "3"
      [] d = 4 -> "4" [] d = 5 -> "5" [] d = 6 -> "6" [] d = 7 -> "7"
      [] d = 8 -> "8" [] d = 9 -> "9"
D2(n) == <<DigitChar(n \div 10), DigitChar(n % 10)>>
D3(n) == <<DigitChar(n \div 100), DigitChar((n \div 10) % 10), DigitChar(n % 10)>>
\* HH:MM:SS,mmm of <<h, m, s, ms>>
Timecode(tc) ==
    D2(tc[1]) \o COLON \o D2(tc[2]) \o COLON \o D2(tc[3]) \o COMMA \o D3(tc[4])
TimingLine(a, b) == Timecode(a) \o <<" ">> \o ARROW \o <<" ">> \o Timecode(b)

Good1 == TimingLine(<<0, 0, 1, 500>>, <<0, 0, 3, 0>>)
Good2 == TimingLine(<<1, 2, 3, 4>>, <<0, 0, 0, 40>>)   \* start > end
\* 00:00:01,5x0 --> 00:00:03,000
BadMs == <<"0", "0", ":", "0", "0", ":", "0", "1", ",", "5", "x", "0">>
            \o <<" ">> \o ARROW \o <<" ">> \o Timecode(<<0, 0, 3, 0>>)
\* 00:00:01.500 --> 00:00:03,000 (no comma)
NoComma == <<"0", "0", ":", "0", "0", ":", "0", "1", ".", "5", "0", "0">>
            \o <<" ">> \o ARROW \o <<" ">> \o Timecode(<<0, 0, 3, 0>>)
\* 0:0:1,5 --> -00:00:03,000 (too few digits, a sign)
Sloppy == <<"0", ":", "0", ":", "1", ",", "5">>
            \o <<" ">> \o ARROW \o <<" ">> \o <<"-">> \o Timecode(<<0, 0, 3, 0>>)
\* a --> b --> c
TwoArrows == <<"a", " ">> \o ARROW \o <<" ", "b", " ">> \o ARROW \o <<" ", "c">>
Hi == <<"H", "i">>
Padded == <<" ", "x", " ">>
Num == <<"4", "2">>
Empty == <<>>
Spaces == <<" ", "\t">>

\* the shape HH:MM:SS,mmm, read off the positions
StrictShape(s) ==
    /\ Len(s) = 12
    /\ s[3] = ":" /\ s[6] = ":" /\ s[9] = ","
    /\ \A i \in {1, 2, 4, 5, 7, 8, 10, 11, 12} : s[i] \in Digits
\* hours*3600 + minutes*60 + seconds + milliseconds/1000, in milliseconds
ShapeMs(s) ==
    ((DigitVal(s[1]) * 10 + DigitVal(s[2])) * 3600
        + (DigitVal(s[4]) * 10 + DigitVal(s[5])) * 60
        + (DigitVal(s[7]) * 10 + DigitVal(s[8]))) * 1000
    + DigitVal(s[10]) * 100 + DigitVal(s[11]) * 10 + DigitVal(s[12])
\* a timing line 'HH:MM:SS,mmm --> HH:MM:SS,mmm'
WellFormedTiming(line) ==
    /\ Len(line) = 29
    /\ StrictShape(SubSeq(line, 1, 12))
    /\ SubSeq(line, 13, 17) = <<" ">> \o ARROW \o <<" ">>
    /\ StrictShape(SubSeq(line, 18, 29))

TimingChoices == {Good1, Good2, BadMs, Sloppy}
TextChoices == {<<>>, <<Hi, Padded>>, <<Num>>, <<Good2>>, <<TwoArrows>>}
BlockChoices == [index : BOOLEAN, timing : TimingChoices, text : TextChoices]
Layouts == {[gap |-> 1, trail |-> 0], [gap |-> 2, trail |-> 1]}

BlankRun(n) == [i \in 1..n |-> Empty]
BlockLines(b) ==
    (IF b.index THEN <<Num>> ELSE <<>>) \o <<b.timing>> \o b.text
RECURSIVE Serialize(_, _)
Serialize(bs, layout) ==
    IF bs = <<>> THEN <<>>
    ELSE BlockLines(Head(bs))
            \o BlankRun(IF Len(bs) = 1 THEN layout.trail ELSE layout.gap)
            \o Serialize(Tail(bs), layout)

SeqsUpTo(S, n) == UNION {[1..k -> S] : k \in 0..n}

LineChoices == {Empty, Spaces, Num, Hi, Good1, BadMs, NoComma, Sloppy, TwoArrows}

Pending == [done |-> FALSE, raised |-> FALSE, cues |-> <<>>]
(***************************************************************************)
(* Frames.  A frame is [h, w, px]: px maps <<y, x>> to a pixel value.  The *)
(* heap maps buffer ids to frames; numpy's copy() allocates a new buffer.  *)
(***************************************************************************)
FrameH == 24
FrameW == 3
BufferIds == 1..4
NoBuffer == 0

Pixels(f) == (0..(f.h - 1)) \X (0..(f.w - 1))
Alloc(hp) == CHOOSE i \in BufferIds \ DOMAIN hp :
                \A j \in BufferIds \ DOMAIN hp : i <= j
Store(hp, id, f) == [i \in DOMAIN hp \cup {id} |-> IF i = id THEN f ELSE hp[i]]
\* what is left of the heap when only roots are referenced
Collect(hp, roots) == [i \in DOMAIN hp \cap roots |-> hp[i]]

\* cv2.getTextSize(line, FONT_HERSHEY_SIMPLEX, 0.6, 2)[0]: the glyphs are
\* taken to be GlyphW wide and GlyphH high
GlyphW == 11
GlyphH == 13
getTextSize(line) == <<GlyphW * Len(line), GlyphH>>

line_spacing == 10
margin_bottom == 20

RECURSIVE SumHeights(_)
SumHeights(sizes) ==
    IF sizes = <<>> THEN 0 ELSE Head(sizes)[2] + SumHeights(Tail(sizes))
MaxWidth(sizes) ==
    CHOOSE m \in {sizes[i][1] : i \in 1..Len(sizes)} :
        \A i \in 1..Len(sizes) : sizes[i][1] <= m

\* cv2.rectangle(img, (x1, y1), (x2, y2), (0, 0, 0), -1): filled, corners
\* included, clipped to the image
rectangle(f, x1, y1, x2, y2) ==
    [f EXCEPT !.px = [p \in Pixels(f) |->
        IF x1 <= p[2] /\ p[2] <= x2 /\ y1 <= p[1] /\ p[1] <= y2
        THEN 0 ELSE f.px[p]]]

\* cvRound(v / 2): halves round to even
HalfRound(v) ==
    IF v % 2 = 0 THEN v \div 2
    ELSE IF (v \div 2) % 2 = 0 THEN v \div 2 ELSE v \div 2 + 1
\* cv2.addWeighted(a, 0.5, b, 0.5, 0, b)
addWeighted(a, b) ==
    [b EXCEPT !.px = [p \in Pixels(b) |->
        HalfRound(a.px[p] + b.px[p])]]

\* cv2.putText(img, line, (x, base), ..., (255, 255, 255), ...): the glyphs
\* are taken to fill the text's box, above the baseline
putText(f, size, x, base) ==
    [f EXCEPT !.px = [p \in Pixels(f) |->
        IF x <= p[2] /\ p[2] < x + size[1]
              /\ base - size[2] < p[1] /\ p[1] <= base
        THEN 255 ELSE f.px[p]]]

\* the for loop over zip(lines, text_sizes)
RECURSIVE DrawLines(_, _, _)
DrawLines(f, sizes, y) ==
    IF sizes = <<>> THEN f
    ELSE LET line_width == Head(sizes)[1]
             line_height == Head(sizes)[2]
             x == (f.w - line_width) \div 2
         IN  DrawLines(putText(f, Head(sizes), x, y + line_height),
                       Tail(sizes), y + line_height + line_spacing)

\* the caption drawn into frame f: lines 153 to 186
Caption(f, lines) ==
    LET text_sizes == [i \in 1..Len(lines) |-> getTextSize(lines[i])]
        max_width == MaxWidth(text_sizes)
        total_text_height ==
            SumHeights(text_sizes) + (Len(lines) - 1) * line_spacing
        y_start == f.h - margin_bottom - total_text_height
        x_start == (f.w - max_width) \div 2
        rect_x1 == x_start - 10
        rect_y1 == y_start - 5
        rect_x2 == x_start + max_width + 10
        rect_y2 == y_start + total_text_height + 5
        overlay == rectangle(f, rect_x1, rect_y1, rect_x2, rect_y2)
        blended == addWeighted(overlay, f)
    IN  DrawLines(blended, text_sizes, y_start)

\* a faulty variant: no copy is made, the caption is drawn into the frame given
overlay_subtitle_in_place(hp, frame, lines) ==
    IF lines = <<>> THEN [heap |-> hp, ret |-> frame]
    ELSE [heap |-> Store(hp, frame, Caption(hp[frame], lines)), ret |-> frame]

\* overlay_subtitle(frame, lines): the heap after the call and the buffer
\* returned.  The buffer named overlay (line 175) is dead on return.
overlay_subtitle(hp, frame, lines) ==
    LET result == Alloc(hp)
        copied == Store(hp, result, hp[frame])
    IN  IF lines = <<>> THEN [heap |-> copied, ret |-> result]
        ELSE [heap |-> Store(copied, result, Caption(copied[result], lines)),
              ret |-> result]
(***************************************************************************)
(* main.  The video holds nframes frames; frame k's pixels are             *)
(* VideoPixels(k), and cap.read() returns each in a buffer of its own.     *)
(***************************************************************************)
MaxFrames == 2
MaxShots == 2
FramePeriodMs == 40

VideoFrame(k) ==
    [h |-> FrameH, w |-> FrameW,
     px |-> [p \in (0..(FrameH - 1)) \X (0..(FrameW - 1)) |->
                (60 * k + 7 * p[1] + p[2]) % 256]]
\* cap.get(cv2.CAP_PROP_POS_MSEC) once n frames were read
PosMsec(n) == n * FramePeriodMs

\* what cv2.waitKey(delay) returns: -1 (no key), Space, 'q', Esc, 's', 'a'
KeyCodes == {-1, 32, 113, 27, 115, 97}
\* key & 0xFF
Low8(k) == k % 256
\* the time between two readings of datetime.now(), in microseconds
Elapsed == {300, 1000}
\* strftime("%Y%m%d_%H%M%S_%f")[:-3]: the reading cut to milliseconds
Timestamp(us) == us \div 1000

CaptionLine == TimingLine(<<0, 0, 0, 40>>, <<0, 0, 0, 40>>)
SubtitleFiles ==
    { [exists |-> FALSE, lines |-> <<>>],
      [exists |-> TRUE, lines |-> <<Num, CaptionLine, Hi>>],
      [exists |-> TRUE, lines |-> <<CaptionLine, Empty, Good1, Hi>>],
      [exists |-> TRUE, lines |-> <<CaptionLine, Hi, Empty, TwoArrows>>] }

\* a faulty variant: the frame displayed is saved
ScreenshotCaptioned == display_frame
\* the frame handed to cv2.imwrite (line 275)
ScreenshotFrame == current_frame

\* a faulty variant: a frame is read in every iteration
ReadAlways == TRUE
\* whether the iteration reads a frame (line 243)
ShouldRead == ~paused

Exit(status, message) ==
    /\ pc' = "exited"
    /\ exit_status' = status
    /\ diag' = message

\* lines 201 to 203
CheckVideo ==
    /\ pc = "start"
    /\ IF ~video_exists
       THEN Exit(1, "video file does not exist")
       ELSE /\ pc' = IF script = "mkv_player" THEN "subtitles" ELSE "open"
            /\ UNCHANGED <<exit_status, diag>>
    /\ UNCHANGED <<srtVars, cueVars, heap, ovVars, script, video_exists,
                   decoder_opens, subtitle_arg, subtitle_file, nframes, pos,
                   cues, paused, current_frame, display_frame, shown, now_us,
                   written, loop_entered, loop_end, key>>

\* lines 205 to 218 of mkv_player.py: without --subtitle the file beside
\* the video is used if it exists, else no file is parsed
LoadSubtitles ==
    /\ pc = "subtitles"
    /\ LET parsed == IF subtitle_arg \/ subtitle_file.exists
                     THEN parse_srt(subtitle_file.exists, subtitle_file.lines)
                     ELSE Returned(<<>>)
       IN  IF parsed.raised
           THEN /\ Exit(1, "Traceback: ValueError")
                /\ UNCHANGED cues
           ELSE /\ cues' = parsed.cues
                /\ pc' = "open"
                /\ UNCHANGED <<exit_status, diag>>
    /\ UNCHANGED <<srtVars, cueVars, heap, ovVars, script, video_exists,
                   decoder_opens, subtitle_arg, subtitle_file, nframes, pos,
                   paused, current_frame, display_frame, shown, now_us,
                   written, loop_entered, loop_end, key>>

\* lines 220 to 240: the decoder is opened and the loop is set up
OpenVideo ==
    /\ pc = "open"
    /\ IF ~decoder_opens
       THEN /\ Exit(1, "could not open video file")
            /\ UNCHANGED <<paused, current_frame, loop_entered>>
       ELSE /\ paused' = FALSE
            /\ current_frame' = NoBuffer
            /\ loop_entered' = TRUE
            /\ pc' = "fetch"
            /\ UNCHANGED <<exit_status, diag>>
    /\ UNCHANGED <<srtVars, cueVars, heap, ovVars, script, video_exists,
                   decoder_opens, subtitle_arg, subtitle_file, nframes, pos,
                   cues, display_frame, shown, now_us, written, loop_end, key>>

\* lines 243 to 251: a frame is read unless paused
Fetch ==
    /\ pc = "fetch"
    /\ IF ShouldRead
       THEN IF pos < nframes
            THEN LET hp == Collect(heap, {display_frame})
                     frame == Alloc(hp)
                 IN  /\ heap' = Store(hp, frame, VideoFrame(pos + 1))
                     /\ pos' = pos + 1
                     /\ current_frame' = frame
                     /\ pc' = "show"
                     /\ UNCHANGED loop_end
            ELSE /\ loop_end' = "end of video"
                 /\ pc' = "cleanup"
                 /\ UNCHANGED <<heap, pos, current_frame>>
       ELSE IF current_frame = NoBuffer
            THEN /\ loop_end' = "no frame"
                 /\ pc' = "cleanup"
                 /\ UNCHANGED <<heap, pos, current_frame>>
            ELSE /\ pc' = "show"
                 /\ UNCHANGED <<heap, pos, current_frame, loop_end>>
    /\ UNCHANGED <<srtVars, cueVars, ovVars, script, video_exists,
                   decoder_opens, subtitle_arg, subtitle_file, nframes, cues,
                   paused, display_frame, shown, now_us, written, exit_status,
                   diag, loop_entered, key>>

\* lines 252 to 261: the display frame is a copy, captioned when a cue
\* with text is active, and is shown
Show ==
    /\ pc = "show"
    /\ LET hp == Collect(heap, {current_frame})
           copy == Alloc(hp)
           copied == Store(hp, copy, hp[current_frame])
           current_time == PosMsec(pos)
           subtitle_lines == IF cues # <<>>
                             THEN find_active_cue(cues, current_time)
                             ELSE <<None>>
           drawn == IF subtitle_lines[1] = "lines" /\ subtitle_lines[2] # <<>>
                    THEN overlay_subtitle(copied, copy, subtitle_lines[2])
                    ELSE [heap |-> copied, ret |-> copy]
       IN  /\ display_frame' = drawn.ret
           /\ heap' = Collect(drawn.heap, {current_frame, drawn.ret})
           /\ shown' = drawn.heap[drawn.ret].px
    /\ pc' = "key"
    /\ UNCHANGED <<srtVars, cueVars, ovVars, script, video_exists,
                   decoder_opens, subtitle_arg, subtitle_file, nframes, pos,
                   cues, paused, current_frame, now_us, written, exit_status,
                   diag, loop_entered, loop_end, key>>

\* lines 263 to 277: the key waitKey returned is handled
HandleKey ==
    /\ pc = "key"
    /\ \E k \in KeyCodes, d \in Elapsed :
        /\ key' = k
        /\ Low8(k) = 115 => Len(written) < MaxShots
        /\ Low8(k) # 115 => d = 1000
        /\ IF Low8(k) \in {113, 27}
           THEN /\ loop_end' = "quit"
                /\ pc' = "cleanup"
                /\ UNCHANGED <<paused, now_us, written>>
           ELSE IF Low8(k) = 32
           THEN /\ paused' = ~paused
                /\ pc' = "fetch"
                /\ UNCHANGED <<loop_end, now_us, written>>
           ELSE IF Low8(k) = 115
           THEN /\ now_us' = now_us + d
                /\ written' = Append(written,
                                [path |-> Timestamp(now_us + d),
                                 px |-> heap[ScreenshotFrame].px,
                                 at |-> pos])
                /\ pc' = "fetch"
                /\ UNCHANGED <<loop_end, paused>>
           ELSE /\ pc' = "fetch"
                /\ UNCHANGED <<loop_end, paused, now_us, written>>
    /\ UNCHANGED <<srtVars, cueVars, heap, ovVars, script, video_exists,
                   decoder_opens, subtitle_arg, subtitle_file, nframes, pos,
                   cues, current_frame, display_frame, shown, exit_status,
                   diag, loop_entered>>

\* lines 279 to 281, and the interpreter's exit
Cleanup ==
    /\ pc = "cleanup"
    /\ Exit(0, None)
    /\ UNCHANGED <<srtVars, cueVars, heap, ovVars, script, video_exists,
                   decoder_opens, subtitle_arg, subtitle_file, nframes, pos,
                   cues, paused, current_frame, display_frame, shown, now_us,
                   written, loop_entered, loop_end, key>>
(***************************************************************************)
(* The calls of parse_srt, find_active_cue and overlay_subtitle on their   *)
(* own.                                                                    *)
(***************************************************************************)
MaxCues == 2
MaxTime == 2
MaxWrites == 1

ParseSrt ==
    /\ ~srt.done
    /\ srt' = [done |-> TRUE] @@ parse_srt(TRUE, content)
    /\ UNCHANGED <<content, blocks, cueVars, heap, ovVars, mainVars>>

CueChoices == (0..MaxTime) \X (0..MaxTime) \X {<<>>, <<Hi>>, <<Num>>}

Lookup ==
    /\ found = <<"pending">>
    /\ found' = find_active_cue(cues_in, t_in)
    /\ UNCHANGED <<srtVars, cues_in, t_in, heap, ovVars, mainVars>>

Uniform(h, w, v) == [h |-> h, w |-> w, px |-> [p \in (0..(h - 1)) \X (0..(w - 1)) |-> v]]
Transposed(f) == [h |-> f.w, w |-> f.h,
                  px |-> [p \in (0..(f.w - 1)) \X (0..(f.h - 1)) |-> f.px[<<p[2], p[1]>>]]]
FrameChoices == {VideoFrame(1), Transposed(VideoFrame(1)),
                 Uniform(FrameH, FrameW, 201), Uniform(FrameW, FrameH, 201)}
LineLists == {<<>>, <<Hi>>, <<Hi, Num>>}

Overlay ==
    /\ ov_out = NoBuffer
    /\ ov_in # NoBuffer
    /\ LET r == overlay_subtitle(heap, ov_in, ov_lines)
       IN  /\ heap' = r.heap
           /\ ov_out' = r.ret
    /\ UNCHANGED <<srtVars, cueVars, ov_in, ov_lines, ov_orig, ov_writes, mainVars>>

\* a later write to the buffer overlay_subtitle returned
WriteResult ==
    /\ ov_out # NoBuffer
    /\ ov_writes < MaxWrites
    /\ \E p \in Pixels(heap[ov_out]) :
        heap' = [heap EXCEPT ![ov_out].px[p] = 255 - @]
    /\ ov_writes' = ov_writes + 1
    /\ UNCHANGED <<srtVars, cueVars, ov_in, ov_lines, ov_orig, ov_out, mainVars>>

(***************************************************************************)
(* The specifications.                                                     *)
(***************************************************************************)
SrtIdle == content = <<>> /\ blocks = <<>> /\ srt = Pending
CueIdle == cues_in = <<>> /\ t_in = 0 /\ found = <<"pending">>
OvIdle == /\ ov_in = NoBuffer /\ ov_lines = <<>> /\ ov_orig = <<>>
          /\ ov_out = NoBuffer /\ ov_writes = 0
MainIdle ==
    /\ script = "mkv_player" /\ pc = "idle"
    /\ video_exists = TRUE /\ decoder_opens = TRUE
    /\ subtitle_arg = FALSE /\ subtitle_file = [exists |-> FALSE, lines |-> <<>>]
    /\ nframes = 0 /\ pos = 0 /\ cues = <<>> /\ paused = FALSE
    /\ current_frame = NoBuffer /\ display_frame = NoBuffer /\ shown = <<>>
    /\ now_us = 0 /\ written = <<>> /\ exit_status = None /\ diag = None
    /\ loop_entered = FALSE /\ loop_end = None /\ key = -1

\* main, as either script runs it
Init ==
    /\ SrtIdle /\ CueIdle /\ OvIdle
    /\ heap = <<>>
    /\ script \in {"mkv_player", "mkv_player_v2"}
    /\ pc = "start"
    /\ video_exists \in BOOLEAN
    /\ decoder_opens \in BOOLEAN
    /\ subtitle_arg \in BOOLEAN
    /\ subtitle_file \in SubtitleFiles
    /\ script = "mkv_player_v2" =>
            ~subtitle_arg /\ ~subtitle_file.exists
    /\ nframes \in 0..MaxFrames
    /\ pos = 0 /\ cues = <<>> /\ paused = FALSE
    /\ current_frame = NoBuffer /\ display_frame = NoBuffer /\ shown = <<>>
    /\ now_us = 0 /\ written = <<>> /\ exit_status = None /\ diag = None
    /\ loop_entered = FALSE /\ loop_end = None /\ key = -1

Next ==
    \/ CheckVideo
    \/ LoadSubtitles
    \/ OpenVideo
    \/ Fetch
    \/ Show
    \/ HandleKey
    \/ Cleanup

Spec == Init /\ [][Next]_vars

\* parse_srt on any sequence of lines
InitLines ==
    /\ content \in SeqsUpTo(LineChoices, MaxLines)
    /\ blocks = <<>>
    /\ srt = Pending
    /\ CueIdle /\ OvIdle /\ MainIdle /\ heap = <<>>

SpecLines == InitLines /\ [][ParseSrt]_vars

\* parse_srt on files written from blocks
InitBlocks ==
    /\ \E bs \in SeqsUpTo(BlockChoices, MaxBlocks), layout \in Layouts :
        /\ blocks = bs
        /\ content = Serialize(bs, layout)
    /\ srt = Pending
    /\ CueIdle /\ OvIdle /\ MainIdle /\ heap = <<>>

SpecBlocks == InitBlocks /\ [][ParseSrt]_vars

\* find_active_cue on any cue collection
InitCue ==
    /\ cues_in \in SeqsUpTo(CueChoices, MaxCues)
    /\ t_in \in 0..(MaxTime + 1)
    /\ found = <<"pending">>
    /\ SrtIdle /\ OvIdle /\ MainIdle /\ heap = <<>>

SpecCue == InitCue /\ [][Lookup]_vars

\* overlay_subtitle on a frame, and writes to what it returned
InitOverlay ==
    /\ \E f \in FrameChoices :
        /\ heap = Store(<<>>, 1, f)
        /\ ov_orig = f
    /\ ov_in = 1
    /\ ov_lines \in LineLists
    /\ ov_out = NoBuffer
    /\ ov_writes = 0
    /\ SrtIdle /\ CueIdle /\ MainIdle

NextOverlay == Overlay \/ WriteResult

SpecOverlay == InitOverlay /\ [][NextOverlay]_vars
(***************************************************************************)
(* What the claims speak of.                                               *)
(***************************************************************************)
\* the stripped line holds the separator exactly once
OneArrow(line) == Cardinality(Occurrences(strip(line), ARROW)) = 1
\* the two timecode strings of such a line
Sides(line) ==
    LET u == strip(line)
        i == CHOOSE k \in Occurrences(u, ARROW) : TRUE
    IN  <<strip(SubSeq(u, 1, i - 1)), strip(SubSeq(u, i + 3, Len(u)))>>

\* what int() accepts: whitespace, an optional sign, digits that single
\* underscores may separate, whitespace
IntLiteral(s) ==
    \E a \in 1..Len(s), b \in 1..Len(s) :
        /\ a <= b
        /\ \A i \in 1..(a - 1) : s[i] \in Whitespace
        /\ \A i \in (b + 1)..Len(s) : s[i] \in Whitespace
        /\ LET d == IF s[a] \in {"+", "-"} THEN a + 1 ELSE a IN
            /\ d <= b
            /\ s[d] \in Digits
            /\ s[b] \in Digits
            /\ \A i \in d..b :
                \/ s[i] \in Digits
                \/ s[i] = "_" /\ s[i - 1] \in Digits /\ s[i + 1] \in Digits
\* the value of an integer literal
LiteralValue(s) ==
    LET ds == SelectSeq(s, LAMBDA c : c \in Digits)
        pow[n \in 0..Len(ds)] == IF n = 0 THEN 1 ELSE 10 * pow[n - 1]
        sum[n \in 0..Len(ds)] ==
            IF n = 0 THEN 0
            ELSE sum[n - 1] + DigitVal(ds[n]) * pow[Len(ds) - n]
    IN  IF \E i \in 1..Len(s) : s[i] = "-" THEN 0 - sum[Len(ds)] ELSE sum[Len(ds)]
\* one comma; before it three fields parted by two colons; the four fields
\* integer literals
Commas(s) == {i \in 1..Len(s) : s[i] = ","}
Colons(s) == {i \in 1..Len(s) : s[i] = ":"}
Fields(s) ==
    LET c == CHOOSE i \in Commas(s) : TRUE
        p == CHOOSE i \in Colons(s) : \A j \in Colons(s) : i <= j
        q == CHOOSE i \in Colons(s) : \A j \in Colons(s) : j <= i
    IN  <<SubSeq(s, 1, p - 1), SubSeq(s, p + 1, q - 1),
          SubSeq(s, q + 1, c - 1), SubSeq(s, c + 1, Len(s))>>
AcceptedShape(s) ==
    /\ Cardinality(Commas(s)) = 1
    /\ Cardinality(Colons(s)) = 2
    /\ \A i \in Colons(s) : \A c \in Commas(s) : i < c
    /\ \A k \in 1..4 : IntLiteral(Fields(s)[k])
AcceptedMs(s) ==
    LET f == Fields(s) IN
    (LiteralValue(f[1]) * 3600 + LiteralValue(f[2]) * 60 + LiteralValue(f[3]))
        * 1000 + LiteralValue(f[4])

\* the line is a timing line both of whose timecodes have the given shape
\* and the given values
TimingOf(line, Shape(_), Ms(_), cue) ==
    /\ OneArrow(line)
    /\ Shape(Sides(line)[1]) /\ Shape(Sides(line)[2])
    /\ Ms(Sides(line)[1]) = cue[1] /\ Ms(Sides(line)[2]) = cue[2]

WellFormedBlock(b) ==
    /\ WellFormedTiming(b.timing)
    /\ \A i \in 1..Len(b.text) : ~blank(b.text[i])
CueOf(b) ==
    <<ShapeMs(SubSeq(b.timing, 1, 12)), ShapeMs(SubSeq(b.timing, 18, 29)), b.text>>
WellFormedCues(bs) ==
    LET wf == SelectSeq(bs, WellFormedBlock) IN [i \in 1..Len(wf) |-> CueOf(wf[i])]
\* a timing line with a timecode that is not of the shape HH:MM:SS,mmm
MalformedBlock(b) ==
    /\ OneArrow(b.timing)
    /\ ~(StrictShape(Sides(b.timing)[1]) /\ StrictShape(Sides(b.timing)[2]))
\* a timing line with a timecode parse_timecode has to reject, and no text
\* line holding the separator
RejectedBlock(b) ==
    /\ OneArrow(b.timing)
    /\ ~(AcceptedShape(Sides(b.timing)[1]) /\ AcceptedShape(Sides(b.timing)[2]))
    /\ \A i \in 1..Len(b.text) : ~contains(b.text[i], ARROW)

\* C1: every frame handed to cv2.imwrite holds the pixels of the frame
\* last fetched from the source, as fetched, and the current frame's buffer
\* keeps those pixels whatever is displayed
C1_ScreenshotIsRawFrame ==
    /\ \A i \in 1..Len(written) : written[i].px = VideoFrame(written[i].at).px
    /\ current_frame # NoBuffer => heap[current_frame] = VideoFrame(pos)
\* a screenshot taken while paused under a caption: what is displayed
\* differs from what was written
C1_Witness ==
    /\ pc = "fetch" /\ paused /\ Low8(key) = 115
    /\ written # <<>>
    /\ shown # written[Len(written)].px
    /\ shown # VideoFrame(pos).px

\* C2: find_active_cue returns the lines of the first cue in collection
\* order with start <= t <= end, and None exactly when there is none
Active(c, t) == c[1] <= t /\ t <= c[2]
C2_FirstActiveCue ==
    found # <<"pending">> =>
        LET hits == {i \in 1..Len(cues_in) : Active(cues_in[i], t_in)} IN
        IF hits = {} THEN found = <<None>>
        ELSE \E i \in hits :
                /\ \A j \in hits : i <= j
                /\ found = <<"lines", cues_in[i][3]>>
\* two overlapping cues hold t, at the end of the first, and the first won
C2_Witness ==
    /\ Len(cues_in) = 2
    /\ Active(cues_in[1], t_in) /\ Active(cues_in[2], t_in)
    /\ cues_in[1][2] = t_in
    /\ cues_in[1][3] # cues_in[2][3]
    /\ found = <<"lines", cues_in[1][3]>>

\* C3: a file of well-formed blocks parses to one cue per block, in file
\* order, with the times of its timecodes and its text lines
C3_WellFormedBlocks ==
    (srt.done /\ \A i \in 1..Len(blocks) : WellFormedBlock(blocks[i])) =>
        /\ ~srt.raised
        /\ srt.cues = [i \in 1..Len(blocks) |-> CueOf(blocks[i])]
\* two blocks, one with an index and all-digit text, one without text
C3_Witness ==
    /\ srt.done /\ Len(blocks) = 2 /\ Len(srt.cues) = 2
    /\ \A i \in 1..2 : WellFormedBlock(blocks[i])
    /\ blocks[1].index /\ blocks[1].text = <<Num>>
    /\ blocks[2].text = <<>>
    /\ srt.cues[1] = <<1500, 3000, <<Num>>>>

\* C4: parse_srt returns a cue collection, without raising, whatever the
\* lines
C4_NeverRaises == srt.done => ~srt.raised

\* C5 as stated: a block whose timing line holds a timecode not of the
\* shape HH:MM:SS,mmm yields no cue, and the file parses to the cues of its
\* well-formed blocks
C5_AsStated ==
    (/\ srt.done
     /\ \E i \in 1..Len(blocks) : MalformedBlock(blocks[i])
     /\ \A i \in 1..Len(blocks) :
            WellFormedBlock(blocks[i]) \/ MalformedBlock(blocks[i])) =>
        /\ ~srt.raised
        /\ srt.cues = WellFormedCues(blocks)
\* C5 as amended: a block whose timing line holds a timecode that
\* parse_timecode rejects, and whose text lines do not hold the separator,
\* yields no cue, and the file parses to the cues of its well-formed blocks
C5_RejectedBlockDropped ==
    (/\ srt.done
     /\ \E i \in 1..Len(blocks) : RejectedBlock(blocks[i])
     /\ \A i \in 1..Len(blocks) :
            WellFormedBlock(blocks[i]) \/ RejectedBlock(blocks[i])) =>
        /\ ~srt.raised
        /\ srt.cues = WellFormedCues(blocks)
\* a rejected block with an index and text, then a well-formed block
C5_Witness ==
    /\ srt.done /\ Len(blocks) = 2
    /\ RejectedBlock(blocks[1]) /\ blocks[1].index /\ blocks[1].text = <<Num>>
    /\ WellFormedBlock(blocks[2])
    /\ srt.cues = <<CueOf(blocks[2])>>

\* C6 as stated: every cue comes from a timing line whose two timecodes
\* have exactly the shape HH:MM:SS,mmm
C6_AsStated ==
    (srt.done /\ ~srt.raised) =>
        \A k \in 1..Len(srt.cues) : \E i \in 1..Len(content) :
            TimingOf(content[i], StrictShape, ShapeMs, srt.cues[k])
\* C6 as amended: every cue comes from a timing line whose two timecodes
\* each hold one comma, three colon-parted fields before it, and four
\* fields that int() accepts
C6_EmittedOnlyIfAccepted ==
    (srt.done /\ ~srt.raised) =>
        \A k \in 1..Len(srt.cues) : \E i \in 1..Len(content) :
            TimingOf(content[i], AcceptedShape, AcceptedMs, srt.cues[k])
\* a file with rejected timing lines and one accepted without the strict
\* shape, which gives the only cue
C6_Witness ==
    /\ srt.done /\ ~srt.raised
    /\ \E i, j, k \in 1..Len(content) :
            content[i] = BadMs /\ content[j] = NoComma /\ content[k] = Sloppy
    /\ Len(srt.cues) = 1
    /\ srt.cues[1][1] = 1005 /\ srt.cues[1][2] = 3000

\* C7: overlay_subtitle leaves its argument's pixels as they were and
\* returns another buffer of the same dimensions, a plain copy when there
\* are no lines; writes to that buffer do not reach the argument
C7_OverlayCopies ==
    ov_out # NoBuffer =>
        /\ ov_out # ov_in
        /\ heap[ov_in] = ov_orig
        /\ heap[ov_out].h = ov_orig.h /\ heap[ov_out].w = ov_orig.w
        /\ (ov_lines = <<>> /\ ov_writes = 0) => heap[ov_out] = ov_orig
\* a caption was drawn and the returned buffer written to afterwards
C7_Witness ==
    /\ ov_out # NoBuffer /\ ov_lines # <<>> /\ ov_writes > 0
    /\ \E p \in Pixels(ov_orig) : heap[ov_out].px[p] = 255 /\ ov_orig.px[p] # 255
    /\ \E p \in Pixels(ov_orig) :
            heap[ov_out].px[p] = HalfRound(ov_orig.px[p]) /\ ov_orig.px[p] # 0

\* C8: the process ends with status 1, after a diagnostic and without the
\* display loop, if the video is missing or the decoder does not open, and
\* in every other run with status 0 after the loop ended by end of stream
\* or a quit key
C8_ExitStatus ==
    pc = "exited" =>
        IF ~video_exists \/ ~decoder_opens
        THEN exit_status = 1 /\ diag # None /\ ~loop_entered
        ELSE /\ exit_status = 0 /\ loop_entered
             /\ loop_end \in {"end of video", "quit"}

\* C9: two screenshots of one session are written to different paths
C9_DistinctPaths ==
    \A i, j \in 1..Len(written) : i # j => written[i].path # written[j].path

\* C10: Space, and no other key, toggles paused; a paused iteration reads
\* no frame, keeps the current frame and cannot end the loop; an iteration
\* that is not paused reads exactly the next frame of the video
C10_Step ==
    /\ pc = "key" => (paused' # paused <=> Low8(key') = 32)
    /\ pc # "key" => paused' = paused
    /\ (pc = "fetch" /\ paused) =>
            /\ pos' = pos /\ pc' = "show"
            /\ current_frame' = current_frame
            /\ heap'[current_frame'] = heap[current_frame]
    /\ (pc = "fetch" /\ ~paused) =>
            IF pos < nframes
            THEN /\ pos' = pos + 1 /\ pc' = "show"
                 /\ heap'[current_frame'] = VideoFrame(pos + 1)
            ELSE pos' = pos /\ pc' = "cleanup" /\ loop_end' = "end of video"
    /\ pc # "fetch" =>
            /\ pos' = pos /\ current_frame' = current_frame
            /\ current_frame # NoBuffer => heap'[current_frame] = heap[current_frame]
C10_PauseAndFetch == [][C10_Step]_vars
\* playback was paused on the first frame, an iteration went by paused, and
\* after Space resumed it the second frame was read
C10_Witness ==
    /\ pc = "show" /\ ~paused /\ Low8(key) = 32 /\ pos = 2
    /\ heap[current_frame] = VideoFrame(2)
====
